---- MODULE Spec2Model ----
(***************************************************************************)
(* Model of regtools `junctions extract` (src/junctions/                   *)
(* junctions_extractor.cc): the CIGAR walker that turns one alignment      *)
(* record into candidate junctions, junction_qc, the junctions_ map with   *)
(* its string keys and sequential names, and the lazily sorted             *)
(* junctions_vector_.                                                      *)
(*                                                                         *)
(* Strings are sequences of one-character strings, so that the key         *)
(* construction, the name formatting and std::map's key order are          *)
(* computed character by character as the code computes them.              *)
(***************************************************************************)
EXTENDS Integers, Sequences, FiniteSets, TLC

VARIABLES
    min_anchor_length_,   \* option -a
    min_intron_length_,   \* option -i
    max_intron_length_,   \* option -I
    junctions_,           \* map<string, Junction>
    junctions_vector_,    \* vector<Junction>
    junctions_sorted_,    \* bool
    out,                  \* history: the last catalog request and what it gave
    pc,                   \* "idle" | "loop" | "done": position in parse_alignment_into_junctions
    n_cigar,              \* aln->core.n_cigar of the record being walked
    i,                    \* loop index (0-based, as in the code)
    j1,                   \* the walker's Junction builder
    started_junction,     \* the walker's flag
    cigar,                \* history: the operations of the record read so far
    read_pos,             \* aln->core.pos of the record being walked
    submitted,            \* history: candidates the current record passed to add_junction
    accepted,             \* history: key tuple -> number of in-bounds candidates submitted
    first_seen,           \* history: key tuples in the order of their first in-bounds submission
    n_records             \* history: records read so far

vars == <<min_anchor_length_, min_intron_length_, max_intron_length_,
          junctions_, junctions_vector_, junctions_sorted_, out,
          pc, n_cigar, i, j1, started_junction, cigar, read_pos,
          submitted, accepted, first_seen, n_records>>

config == <<min_anchor_length_, min_intron_length_, max_intron_length_>>
walker == <<pc, n_cigar, i, j1, started_junction, cigar, read_pos, submitted>>
catalog == <<junctions_vector_, junctions_sorted_, out>>
history == <<accepted, first_seen>>

----------------------------------------------------------------------------
(* Bounds of the model *)

MaxRecords == 2     \* records read in one run of Spec and SpecStore
MaxOps == 3         \* largest n_cigar of a record in Spec and SpecStore
MaxWalkOps == 5     \* largest n_cigar of the record in SpecWalk
MaxLen == 2         \* largest length of a CIGAR operation
MaxPos == 1         \* largest alignment start position
MaxCandidates == 3  \* calls of add_junction in one run of SpecOrder

----------------------------------------------------------------------------
(* Strings *)

Digit == <<"0", "1", "2", "3", "4", "5", "6", "7", "8", "9">>

\* ASCII codes of the characters the model uses (std::string compares by char)
Ord == ("0" :> 48) @@ ("1" :> 49) @@ ("2" :> 50) @@ ("3" :> 51) @@ ("4" :> 52)
    @@ ("5" :> 53) @@ ("6" :> 54) @@ ("7" :> 55) @@ ("8" :> 56) @@ ("9" :> 57)
    @@ (":" :> 58) @@ ("-" :> 45) @@ ("+" :> 43) @@ ("?" :> 63) @@ ("c" :> 99)
    @@ ("J" :> 74) @@ ("U" :> 85) @@ ("N" :> 78) @@ ("C" :> 67)

\* std::string operator<
RECURSIVE StrLess(_, _)
StrLess(a, b) ==
    IF b = <<>> THEN FALSE
    ELSE IF a = <<>> THEN TRUE
    ELSE IF Ord[Head(a)] < Ord[Head(b)] THEN TRUE
    ELSE IF Ord[Head(a)] > Ord[Head(b)] THEN FALSE
    ELSE StrLess(Tail(a), Tail(b))

\* ostream << of a non-negative integer: its decimal digits
RECURSIVE Str(_)
Str(n) == IF n < 10 THEN <<Digit[n + 1]>> ELSE Str(n \div 10) \o <<Digit[(n % 10) + 1]>>

\* setfill(c) << setw(w) << s : pad on the left up to width w, never truncate
RECURSIVE SetW(_, _, _)
SetW(w, c, s) == IF Len(s) >= w THEN s ELSE SetW(w, c, <<c>> \o s)

\* common::num_to_str
num_to_str(n) == Str(n)

----------------------------------------------------------------------------
(* Junction *)

\* the default-constructed Junction
Junction ==
    [chrom |-> <<>>, start |-> 0, end |-> 0, thick_start |-> 0, thick_end |-> 0,
     strand |-> <<>>, name |-> <<>>, score |-> <<>>, read_count |-> 0,
     has_left_min_anchor |-> FALSE, has_right_min_anchor |-> FALSE]

get_new_junction_name_from_size(jmap) ==
    LET index == Cardinality(DOMAIN jmap)
    IN  <<"J", "U", "N", "C">> \o SetW(8, "0", Str(index))

get_new_junction_name(jmap) ==
    LET index == Cardinality(DOMAIN jmap) + 1
    IN  <<"J", "U", "N", "C">> \o SetW(8, "0", Str(index))

junction_qc_ok_exclusive(j) ==
    ~ (\/ j.end - j.start <= min_intron_length_
       \/ j.end - j.start >= max_intron_length_)

\* the bool junction_qc returns
junction_qc_ok(j) ==
    ~ (\/ j.end - j.start < min_intron_length_
       \/ j.end - j.start > max_intron_length_)

junction_qc_strict_anchor(j) ==
    IF ~ junction_qc_ok(j) THEN j
    ELSE [j EXCEPT
            !.has_left_min_anchor =
                IF j.start - j.thick_start > min_anchor_length_ THEN TRUE ELSE @,
            !.has_right_min_anchor =
                IF j.thick_end - j.end > min_anchor_length_ THEN TRUE ELSE @]

\* the Junction junction_qc leaves behind in its reference argument
junction_qc(j) ==
    IF ~ junction_qc_ok(j) THEN j
    ELSE [j EXCEPT
            !.has_left_min_anchor =
                IF j.start - j.thick_start >= min_anchor_length_ THEN TRUE ELSE @,
            !.has_right_min_anchor =
                IF j.thick_end - j.end >= min_anchor_length_ THEN TRUE ELSE @]

junction_key_without_strand(j) ==
    LET start == Str(j.start)
        end == Str(j.start) \o Str(j.end)
    IN  j.chrom \o <<":">> \o start \o <<"-">> \o end \o <<":">>

\* the key add_junction builds: s1 is not cleared between the two <<, so the
\* text called `end` is the digits of start followed by the digits of end
junction_key(j) ==
    LET start == Str(j.start)
        end == Str(j.start) \o Str(j.end)
    IN  j.chrom \o <<":">> \o start \o <<"-">> \o end \o <<":">> \o j.strand

merge_junction_last_flags(q, j0) ==
    [q EXCEPT
        !.read_count = j0.read_count + 1,
        !.score = num_to_str(j0.read_count + 1),
        !.name = j0.name,
        !.thick_start = IF j0.thick_start < q.thick_start THEN j0.thick_start ELSE @,
        !.thick_end = IF j0.thick_end > q.thick_end THEN j0.thick_end ELSE @]

merge_junction_first_extents(q, j0) ==
    [q EXCEPT
        !.read_count = j0.read_count + 1,
        !.score = num_to_str(j0.read_count + 1),
        !.name = j0.name,
        !.thick_start = j0.thick_start,
        !.thick_end = j0.thick_end,
        !.has_left_min_anchor = q.has_left_min_anchor \/ j0.has_left_min_anchor,
        !.has_right_min_anchor = q.has_right_min_anchor \/ j0.has_right_min_anchor]

merge_junction_count_kept(q, j0) ==
    [q EXCEPT
        !.read_count = j0.read_count,
        !.score = num_to_str(j0.read_count),
        !.name = j0.name,
        !.thick_start = IF j0.thick_start < q.thick_start THEN j0.thick_start ELSE @,
        !.thick_end = IF j0.thick_end > q.thick_end THEN j0.thick_end ELSE @,
        !.has_left_min_anchor = q.has_left_min_anchor \/ j0.has_left_min_anchor,
        !.has_right_min_anchor = q.has_right_min_anchor \/ j0.has_right_min_anchor]

merge_junction_last_extents(q, j0) ==
    [q EXCEPT
        !.read_count = j0.read_count + 1,
        !.score = num_to_str(j0.read_count + 1),
        !.name = j0.name,
        !.has_left_min_anchor = q.has_left_min_anchor \/ j0.has_left_min_anchor,
        !.has_right_min_anchor = q.has_right_min_anchor \/ j0.has_right_min_anchor]

\* the merge branch of add_junction: q is the incoming junction after qc,
\* j0 the stored one
merge_junction(q, j0) ==
    [q EXCEPT
        !.read_count = j0.read_count + 1,
        !.score = num_to_str(j0.read_count + 1),
        !.name = j0.name,
        !.thick_start = IF j0.thick_start < q.thick_start THEN j0.thick_start ELSE @,
        !.thick_end = IF j0.thick_end > q.thick_end THEN j0.thick_end ELSE @,
        !.has_left_min_anchor = q.has_left_min_anchor \/ j0.has_left_min_anchor,
        !.has_right_min_anchor = q.has_right_min_anchor \/ j0.has_right_min_anchor]

\* the insert branch of add_junction
new_junction(q, jmap) ==
    [q EXCEPT
        !.name = get_new_junction_name(jmap),
        !.read_count = 1,
        !.score = num_to_str(1)]

\* add_junction(Junction j1): the map after the call. The argument is a copy,
\* so the caller's Junction is untouched.
add_junction(jmap, j) ==
    IF ~ junction_qc_ok(j) THEN jmap
    ELSE LET q == junction_qc(j)
             key == junction_key(q)
         IN  IF key \notin DOMAIN jmap
             THEN (key :> new_junction(q, jmap)) @@ jmap
             ELSE (key :> merge_junction(q, jmap[key])) @@ jmap

----------------------------------------------------------------------------
(* The CIGAR walker: one operator per case of the switch.  Each returns the  *)
(* builder, the flag and the map after the case, and `sent`, the candidates  *)
(* the case passed to add_junction (none or one).                            *)

WalkState(j, started, jmap, sent) ==
    [j1 |-> j, started_junction |-> started, junctions |-> jmap, sent |-> sent]

cigar_N_swapped(len, j, started, jmap) ==
    IF ~ started
    THEN WalkState([j EXCEPT !.end = j.start + len, !.thick_end = j.start + len],
                   TRUE, jmap, <<>>)
    ELSE WalkState([j EXCEPT !.thick_start = j.thick_end,
                             !.start = j.end,
                             !.end = j.end + len,
                             !.thick_end = j.end + len],
                   TRUE, add_junction(jmap, j), <<j>>)

cigar_N_keeps_thick_start(len, j, started, jmap) ==
    IF ~ started
    THEN WalkState([j EXCEPT !.end = j.start + len, !.thick_end = j.start + len],
                   TRUE, jmap, <<>>)
    ELSE WalkState([j EXCEPT !.start = j.thick_end,
                             !.end = j.thick_end + len,
                             !.thick_end = j.thick_end + len],
                   TRUE, add_junction(jmap, j), <<j>>)

\* case 'N'
cigar_N(len, j, started, jmap) ==
    IF ~ started
    THEN WalkState([j EXCEPT !.end = j.start + len, !.thick_end = j.start + len],
                   TRUE, jmap, <<>>)
    ELSE WalkState([j EXCEPT !.thick_start = j.end,
                             !.start = j.thick_end,
                             !.end = j.thick_end + len,
                             !.thick_end = j.thick_end + len],
                   TRUE, add_junction(jmap, j), <<j>>)

cigar_M_no_right_anchor(len, j, started, jmap) ==
    IF ~ started
    THEN WalkState([j EXCEPT !.start = j.start + len], started, jmap, <<>>)
    ELSE WalkState(j, started, jmap, <<>>)

\* case '=': case 'M'
cigar_M(len, j, started, jmap) ==
    IF ~ started
    THEN WalkState([j EXCEPT !.start = j.start + len], started, jmap, <<>>)
    ELSE WalkState([j EXCEPT !.thick_end = j.thick_end + len], started, jmap, <<>>)

cigar_DX_not_advancing(len, j, started, jmap) ==
    IF ~ started
    THEN WalkState([j EXCEPT !.thick_start = j.start], FALSE, jmap, <<>>)
    ELSE WalkState([j EXCEPT !.start = j.thick_end,
                             !.thick_start = j.thick_end],
                   FALSE, add_junction(jmap, j), <<j>>)

cigar_DX_keeps_thick_start(len, j, started, jmap) ==
    IF ~ started
    THEN WalkState([j EXCEPT !.start = j.start + len], FALSE, jmap, <<>>)
    ELSE WalkState([j EXCEPT !.start = j.thick_end + len,
                             !.thick_start = j.thick_end + len],
                   FALSE, add_junction(jmap, j), <<j>>)

\* case 'D': case 'X'
cigar_DX(len, j, started, jmap) ==
    IF ~ started
    THEN WalkState([j EXCEPT !.start = j.start + len, !.thick_start = j.start + len],
                   FALSE, jmap, <<>>)
    ELSE WalkState([j EXCEPT !.start = j.thick_end + len,
                             !.thick_start = j.thick_end + len],
                   FALSE, add_junction(jmap, j), <<j>>)

cigar_IS_advancing(len, j, started, jmap) ==
    IF ~ started
    THEN WalkState([j EXCEPT !.start = j.start + len, !.thick_start = j.start + len],
                   FALSE, jmap, <<>>)
    ELSE WalkState([j EXCEPT !.start = j.thick_end + len,
                             !.thick_start = j.thick_end + len],
                   FALSE, add_junction(jmap, j), <<j>>)

\* case 'I': case 'S'
cigar_IS(len, j, started, jmap) ==
    IF ~ started
    THEN WalkState([j EXCEPT !.thick_start = j.start], FALSE, jmap, <<>>)
    ELSE WalkState([j EXCEPT !.start = j.thick_end, !.thick_start = j.thick_end],
                   FALSE, add_junction(jmap, j), <<j>>)

cigar_skip_closing(len, j, started, jmap) == WalkState(j, FALSE, jmap, <<>>)

\* case 'H' and default
cigar_skip(len, j, started, jmap) == WalkState(j, started, jmap, <<>>)

\* the body of the for loop: switch(op)
cigar_op(op, len, j, started, jmap) ==
    CASE op = "N" -> cigar_N(len, j, started, jmap)
      [] op \in {"=", "M"} -> cigar_M(len, j, started, jmap)
      [] op \in {"D", "X"} -> cigar_DX(len, j, started, jmap)
      [] op \in {"I", "S"} -> cigar_IS(len, j, started, jmap)
      [] op = "H" -> cigar_skip(len, j, started, jmap)
      [] OTHER -> cigar_skip(len, j, started, jmap)

end_of_cigar_without_commit(j, started, jmap) == WalkState(j, started, jmap, <<>>)

\* after the loop: if(started_junction) add_junction(j1)
end_of_cigar(j, started, jmap) ==
    IF started THEN WalkState(j, started, add_junction(jmap, j), <<j>>)
    ELSE WalkState(j, started, jmap, <<>>)

\* set_junction_strand: the XS tag's character, '?' when the tag is absent
\* or its character is 0
set_junction_strand(xs) == IF xs \in {"none", "nul"} THEN <<"?">> ELSE <<xs>>

----------------------------------------------------------------------------
(* History kept for the properties: it never feeds back into the program.   *)

KeyTuple(c) == <<c.chrom, c.start, c.end, c.strand>>

InBounds(c) ==
    /\ min_intron_length_ <= c.end - c.start
    /\ c.end - c.start <= max_intron_length_

\* the history h = [accepted, first_seen] after the candidates of `sent`
RECURSIVE Tally(_, _)
Tally(h, sent) ==
    IF sent = <<>> THEN h
    ELSE LET c == Head(sent)
             t == KeyTuple(c)
             h1 == IF ~ InBounds(c) THEN h
                   ELSE IF t \in DOMAIN h.accepted
                   THEN [h EXCEPT !.accepted[t] = @ + 1]
                   ELSE [accepted |-> (t :> 1) @@ h.accepted,
                         first_seen |-> Append(h.first_seen, t)]
         IN  Tally(h1, Tail(sent))

SetHistory(h) ==
    /\ accepted' = h.accepted
    /\ first_seen' = h.first_seen

Account(sent) ==
    SetHistory(Tally([accepted |-> accepted, first_seen |-> first_seen], sent))

----------------------------------------------------------------------------
(* Inputs *)

\* BAM_CIGAR_STR without 'B': 'P' reaches the default case
OpChars == {"M", "I", "D", "N", "S", "H", "P", "=", "X"}
Lens == 1 .. MaxLen
\* the operations of Spec and SpecStore: matches and introns of every length
Ops == {"M", "N"} \X Lens
\* their records: every sequence of at most MaxOps operations
Cigars == UNION {[1 .. n -> Ops] : n \in 0 .. MaxOps}
\* the operations of SpecWalk: every character, and every length for M, N, D
WalkOps == ({"M", "N", "D"} \X Lens) \cup ((OpChars \ {"M", "N", "D"}) \X {1})
\* the records of SpecMerge: every sequence of at most MaxOps of them
WalkCigars == UNION {[1 .. n -> WalkOps] : n \in 0 .. MaxOps}
Positions == 0 .. MaxPos
Chroms == {<<"c", "1">>, <<"c", "1", "0">>}
XSTags == {"none", "+"}

----------------------------------------------------------------------------
(* parse_alignment_into_junctions, one record at a time *)

\* Junction j1 and its set-up before the loop
new_builder(chr, pos, xs) ==
    [Junction EXCEPT !.chrom = chr, !.start = pos, !.thick_start = pos,
                     !.strand = set_junction_strand(xs)]

\* the loop and the commit after it, on the operations cig
\* (w is the state of the walk, with w.sent the candidates passed so far)
walk_step(w, r) == [r EXCEPT !.sent = w.sent \o @]

RECURSIVE walk_cigar(_, _)
walk_cigar(cig, w) ==
    IF cig = <<>>
    THEN walk_step(w, end_of_cigar(w.j1, w.started_junction, w.junctions))
    ELSE walk_cigar(Tail(cig),
                    walk_step(w, cigar_op(Head(cig)[1], Head(cig)[2], w.j1,
                                          w.started_junction, w.junctions)))

parse_alignment_into_junctions_min_one(chr, pos, xs, cig, jmap) ==
    IF Len(cig) < 1 THEN WalkState(Junction, FALSE, jmap, <<>>)
    ELSE walk_cigar(cig, WalkState(new_builder(chr, pos, xs), FALSE, jmap, <<>>))

\* parse_alignment_into_junctions as one step: the map after the call and the
\* candidates it passed to add_junction
parse_alignment_into_junctions(chr, pos, xs, cig, jmap) ==
    IF Len(cig) <= 1 THEN WalkState(Junction, FALSE, jmap, <<>>)
    ELSE walk_cigar(cig, WalkState(new_builder(chr, pos, xs), FALSE, jmap, <<>>))

\* the effect of a walk, or of a part of it, that ended in r; `before` are
\* the candidates the record had submitted until then
Walked(before, r) ==
    /\ junctions_' = r.junctions
    /\ submitted' = before \o r.sent
    /\ Account(r.sent)

\* the effect of one iteration that ended in r
Stepped(r) ==
    /\ j1' = r.j1
    /\ started_junction' = r.started_junction
    /\ Walked(submitted, r)

\* one record of identify_junctions_from_BAM's loop, start to return
ParseAlignment(chr, pos, xs, cig) ==
    /\ pc = "idle"
    /\ n_records < MaxRecords
    /\ n_records' = n_records + 1
    /\ Walked(<<>>, parse_alignment_into_junctions(chr, pos, xs, cig, junctions_))
    /\ out' = <<"none">>
    /\ UNCHANGED <<config, junctions_vector_, junctions_sorted_, pc, n_cigar, i,
                   j1, started_junction, cigar, read_pos>>

\* the same call step by step.  Entry: the n_cigar test and the set-up of
\* the builder
StartRecord(chr, pos, xs, n) ==
    /\ pc = "idle"
    /\ n_records = 0
    /\ n_records' = n_records + 1
    /\ n_cigar' = n
    /\ read_pos' = pos
    /\ cigar' = <<>>
    /\ submitted' = <<>>
    /\ i' = 0
    /\ started_junction' = FALSE
    /\ IF n <= 1
       THEN /\ pc' = "done"
            /\ j1' = j1
       ELSE /\ pc' = "loop"
            /\ j1' = new_builder(chr, pos, xs)
    /\ out' = <<"none">>
    /\ UNCHANGED <<config, junctions_, junctions_vector_, junctions_sorted_, history>>

\* one iteration of the for loop on operation (op, len)
CigarStep(op, len) ==
    /\ pc = "loop"
    /\ i < n_cigar
    /\ Stepped(cigar_op(op, len, j1, started_junction, junctions_))
    /\ i' = i + 1
    /\ cigar' = Append(cigar, <<op, len>>)
    /\ UNCHANGED <<config, catalog, pc, n_cigar, read_pos, n_records>>

\* loop exit and the commit of a still open junction
EndOfCigar ==
    /\ pc = "loop"
    /\ i = n_cigar
    /\ Walked(submitted, end_of_cigar(j1, started_junction, junctions_))
    /\ pc' = "done"
    /\ UNCHANGED <<config, catalog, n_cigar, i, j1, started_junction, cigar,
                   read_pos, n_records>>

\* return 0: the locals of the call are gone
Return ==
    /\ pc = "done"
    /\ pc' = "idle"
    /\ n_cigar' = 0
    /\ i' = 0
    /\ j1' = Junction
    /\ started_junction' = FALSE
    /\ cigar' = <<>>
    /\ read_pos' = 0
    /\ submitted' = <<>>
    /\ UNCHANGED <<config, junctions_, catalog, history, n_records>>

----------------------------------------------------------------------------
(* The catalog *)

\* std::map iterates in ascending key order
RECURSIVE KeyOrder(_)
KeyOrder(K) ==
    IF K = {} THEN <<>>
    ELSE LET m == CHOOSE k \in K : \A o \in K \ {k} : StrLess(k, o)
         IN  <<m>> \o KeyOrder(K \ {m})

create_junctions_vector(vec, jmap) ==
    LET ks == KeyOrder(DOMAIN jmap)
    IN  vec \o [x \in 1 .. Len(ks) |-> jmap[ks[x]]]

\* the comparison sort_junctions sorts by: chromosome, then start, then end
compare_junctions(a, b) ==
    IF StrLess(a.chrom, b.chrom) THEN TRUE
    ELSE IF StrLess(b.chrom, a.chrom) THEN FALSE
    ELSE IF a.start < b.start THEN TRUE
    ELSE IF a.start > b.start THEN FALSE
    ELSE a.end < b.end

\* sort_junctions: the orders std::sort may leave (elements that compare
\* equal may come out in any order)
RECURSIVE SortedOrders(_, _)
SortedOrders(v, I) ==
    IF I = {} THEN {<<>>}
    ELSE UNION {{<<v[m]>> \o s : s \in SortedOrders(v, I \ {m})} :
                m \in {m \in I : \A k \in I : ~ compare_junctions(v[k], v[m])}}

sort_junctions(v) == SortedOrders(v, DOMAIN v)

Materialize_every_time ==
    /\ junctions_vector_' \in
            sort_junctions(create_junctions_vector(junctions_vector_, junctions_))
    /\ junctions_sorted_' = TRUE

Materialize_unsorted ==
    IF ~ junctions_sorted_
    THEN /\ junctions_vector_' = create_junctions_vector(junctions_vector_, junctions_)
         /\ junctions_sorted_' = TRUE
    ELSE UNCHANGED <<junctions_vector_, junctions_sorted_>>

\* if(!junctions_sorted_) { create_junctions_vector(); sort_junctions(...);
\*                          junctions_sorted_ = true; }
Materialize ==
    IF ~ junctions_sorted_
    THEN /\ junctions_vector_' \in
                sort_junctions(create_junctions_vector(junctions_vector_, junctions_))
         /\ junctions_sorted_' = TRUE
    ELSE UNCHANGED <<junctions_vector_, junctions_sorted_>>

get_all_junctions ==
    /\ pc = "idle"
    /\ Materialize
    /\ out' = <<"get", junctions_vector_'>>
    /\ UNCHANGED <<config, junctions_, walker, history, n_records>>

print_all_junctions ==
    /\ pc = "idle"
    /\ Materialize
    /\ out' = <<"print", SelectSeq(junctions_vector_',
                    LAMBDA j : j.has_left_min_anchor /\ j.has_right_min_anchor)>>
    /\ UNCHANGED <<config, junctions_, walker, history, n_records>>

----------------------------------------------------------------------------
(* The run *)

\* the state after construction and parse_options, the options -i and -I
\* being one of the pairs of `bounds`
Setup(bounds) ==
    /\ min_anchor_length_ = 2
    /\ \E b \in bounds :
            /\ min_intron_length_ = b[1]
            /\ max_intron_length_ = b[2]
    /\ junctions_ = <<>>
    /\ junctions_vector_ = <<>>
    /\ junctions_sorted_ = FALSE
    /\ out = <<"none">>
    /\ pc = "idle"
    /\ n_cigar = 0
    /\ i = 0
    /\ j1 = Junction
    /\ started_junction = FALSE
    /\ cigar = <<>>
    /\ read_pos = 0
    /\ submitted = <<>>
    /\ accepted = <<>>
    /\ first_seen = <<>>
    /\ n_records = 0

\* a run over several records of either strand, with no catalog request
InitStore == Setup({<<1, 2>>, <<2, 2>>})

NextStore ==
    /\ n_records < MaxRecords
    /\ \E chr \in Chroms, pos \in Positions, xs \in XSTags, cig \in Cigars :
            ParseAlignment(chr, pos, xs, cig)

SpecStore == InitStore /\ [][NextStore]_vars

\* the arguments of SpecOrder's calls: a junction at each position, of each
\* length, with each length of anchor (none included) on either side
Candidates ==
    {[new_builder(<<"c", "1">>, pos, "none") EXCEPT
            !.start = pos + left, !.end = pos + left + len,
            !.thick_end = pos + left + len + right] :
        pos \in Positions, left \in 0 .. MaxLen, len \in Lens, right \in 0 .. MaxLen}

\* one call add_junction(c)
AddJunction(c) ==
    /\ pc = "idle"
    /\ Len(submitted) < MaxCandidates
    /\ Walked(submitted, WalkState(c, FALSE, add_junction(junctions_, c), <<c>>))
    /\ UNCHANGED <<config, catalog, pc, n_cigar, i, j1, started_junction, cigar,
                   read_pos, n_records>>

\* a run of calls of add_junction on the empty store
InitOrder == Setup({<<1, 2>>, <<2, 2>>})

NextOrder == \E c \in Candidates : AddJunction(c)

SpecOrder == InitOrder /\ [][NextOrder]_vars

\* a run over several records of one chromosome, with every kind of
\* operation
InitMerge == Setup({<<1, 2>>})

NextMerge ==
    /\ n_records < MaxRecords
    /\ \E pos \in Positions, cig \in WalkCigars :
            ParseAlignment(<<"c", "1">>, pos, "none", cig)

SpecMerge == InitMerge /\ [][NextMerge]_vars

\* a run over several records, with catalog requests before, between and
\* after them
Init == Setup({<<1, 2>>})

Next ==
    \/ /\ n_records < MaxRecords
       /\ \E chr \in Chroms, cig \in Cigars : ParseAlignment(chr, 0, "none", cig)
    \/ get_all_junctions
    \/ print_all_junctions

Spec == Init /\ [][Next]_vars

\* a run over one record, walked operation by operation
NextWalk ==
    \/ \E pos \in Positions, n \in 0 .. MaxWalkOps :
            StartRecord(<<"c", "1">>, pos, "none", n)
    \/ \E o \in WalkOps : CigarStep(o[1], o[2])
    \/ EndOfCigar
    \/ Return
    \/ n_records = 1 /\ get_all_junctions
    \/ n_records = 1 /\ print_all_junctions

InitWalk == Setup({<<1, 1>>, <<2, 2>>})

SpecWalk == InitWalk /\ [][NextWalk]_vars

----------------------------------------------------------------------------
(* Properties *)

MatchOps == {"M", "="}

\* the operations walked so far have the characters of `shape`, one set of
\* characters per operation
CigarShape(shape) ==
    /\ Len(cigar) = Len(shape)
    /\ \A x \in 1 .. Len(shape) : cigar[x][1] \in shape[x]

\* the stored entries of the candidate c (at most one, the key being exact)
EntriesOf(c) == {k \in DOMAIN junctions_ : KeyTuple(junctions_[k]) = KeyTuple(c)}

\* C1: a record [Match a, Intron L, Match b] aligned at p submits exactly one
\* candidate, with start = p + a, end = p + a + L, thick_start = p and
\* thick_end = p + a + L + b
C1_SingleIntron ==
    (pc = "done" /\ n_cigar = 3 /\ CigarShape(<<MatchOps, {"N"}, MatchOps>>)) =>
        LET a == cigar[1][2]
            L == cigar[2][2]
            b == cigar[3][2]
        IN  /\ Len(submitted) = 1
            /\ submitted[1].start = read_pos + a
            /\ submitted[1].end = read_pos + a + L
            /\ submitted[1].thick_start = read_pos
            /\ submitted[1].thick_end = read_pos + a + L + b

C1_Witness ==
    /\ pc = "done"
    /\ read_pos = 1
    /\ cigar = <<<<"M", 2>>, <<"N", 1>>, <<"M", 2>>>>
    /\ Len(submitted) = 1
    /\ submitted[1].thick_end = 6

\* the number a text of decimal digits denotes
RECURSIVE DecimalValue(_)
DecimalValue(s) ==
    IF s = <<>> THEN 0
    ELSE 10 * DecimalValue(SubSeq(s, 1, Len(s) - 1)) + (Ord[s[Len(s)]] - 48)

\* s is the decimal text of n: digits only, no leading zero, value n
IsDecimalOf(s, n) ==
    /\ s # <<>>
    /\ \A x \in 1 .. Len(s) : s[x] \in {Digit[d] : d \in 1 .. 10}
    /\ Len(s) > 1 => s[1] # "0"
    /\ DecimalValue(s) = n

\* every key with an accepted submission has exactly one entry, no other
\* entry exists, and the entry's read_count is the number of accepted
\* submissions of its key, its score the decimal text of that number
C2_Counts ==
    /\ \A k \in DOMAIN junctions_ : KeyTuple(junctions_[k]) \in DOMAIN accepted
    /\ \A t \in DOMAIN accepted :
            \E k \in DOMAIN junctions_ :
                /\ KeyTuple(junctions_[k]) = t
                /\ \A o \in DOMAIN junctions_ : KeyTuple(junctions_[o]) = t => o = k
                /\ junctions_[k].read_count = accepted[t]
                /\ IsDecimalOf(junctions_[k].score, accepted[t])

\* a record that submits again the one candidate an entry was made from
\* changes that entry's read_count to 2 and its score to "2", and nothing
\* else of it
C2_SameTwice ==
    \A x \in 1 .. Len(submitted') : \A k \in EntriesOf(submitted'[x]) :
        LET c == submitted'[x]
            e == junctions_[k]
        IN  (e.read_count = 1 /\ e.thick_start = c.thick_start
                              /\ e.thick_end = c.thick_end) =>
                /\ k \in DOMAIN junctions_'
                /\ junctions_'[k] = [e EXCEPT !.read_count = 2, !.score = <<"2">>]

\* C2: an entry's read_count is the number of accepted submissions of its
\* key since the store was created (1 after the first, one more after each
\* later one) and its score is the decimal text of read_count; submitting
\* the same candidate twice gives read_count 2 with the name and the thick
\* extents of the single submission
C2_ReadCount == [] C2_Counts /\ [][C2_SameTwice]_vars

C2_Witness ==
    /\ n_records = 2
    /\ \E c \in {submitted[x] : x \in 1 .. Len(submitted)} : \E k \in EntriesOf(c) :
            /\ junctions_[k].read_count = 2
            /\ junctions_[k].score = <<"2">>
            /\ junctions_[k].thick_start = c.thick_start
            /\ junctions_[k].thick_end = c.thick_end
            /\ accepted[KeyTuple(c)] = 2
    /\ \E k \in DOMAIN junctions_ : junctions_[k].read_count = 1

Min(a, b) == IF a < b THEN a ELSE b
Max(a, b) == IF a > b THEN a ELSE b

\* one step of the run: every entry stays, its thick_start does not grow, its
\* thick_end does not shrink, a flag that is true stays true; and an entry
\* that an accepted candidate of the step merges into has the smaller of the
\* two thick_start and the larger of the two thick_end
C3_Step ==
    /\ \A k \in DOMAIN junctions_ :
            /\ k \in DOMAIN junctions_'
            /\ junctions_'[k].thick_start <= junctions_[k].thick_start
            /\ junctions_'[k].thick_end >= junctions_[k].thick_end
            /\ junctions_[k].has_left_min_anchor => junctions_'[k].has_left_min_anchor
            /\ junctions_[k].has_right_min_anchor => junctions_'[k].has_right_min_anchor
    /\ \A x \in 1 .. Len(submitted') : \A k \in EntriesOf(submitted'[x]) :
            LET c == submitted'[x]
            IN  /\ junctions_'[k].thick_start = Min(junctions_[k].thick_start, c.thick_start)
                /\ junctions_'[k].thick_end = Max(junctions_[k].thick_end, c.thick_end)

\* C3: across the merges into one key thick_start never increases and
\* thick_end never decreases (after each merge they are the minimum and the
\* maximum of the stored and the incoming value), and has_left_min_anchor
\* and has_right_min_anchor never go from true to false
C3_MergeMonotone == [][C3_Step]_vars

C3_Witness ==
    \E c \in {submitted[x] : x \in 1 .. Len(submitted)} : \E k \in EntriesOf(c) :
        /\ junctions_[k].read_count = 2
        /\ junctions_[k].thick_start < c.thick_start
        /\ junctions_[k].thick_end > c.thick_end
        /\ c.start - c.thick_start < min_anchor_length_
        /\ c.thick_end - c.end < min_anchor_length_
        /\ junctions_[k].has_left_min_anchor
        /\ junctions_[k].has_right_min_anchor

\* s is "JUNC" followed by the number n written with 8 digits
IsJunctionName(s, n) ==
    /\ Len(s) = 12
    /\ SubSeq(s, 1, 4) = <<"J", "U", "N", "C">>
    /\ \A x \in 5 .. 12 : s[x] \in {Digit[d] : d \in 1 .. 10}
    /\ DecimalValue(SubSeq(s, 5, 12)) = n

\* the k-th key to be accepted for the first time is stored under the name
\* of k, there are as many entries as such keys, and no two entries share a
\* name
C4_Names ==
    /\ Cardinality(DOMAIN junctions_) = Len(first_seen)
    /\ \A n \in 1 .. Len(first_seen) :
            \E k \in DOMAIN junctions_ :
                /\ KeyTuple(junctions_[k]) = first_seen[n]
                /\ IsJunctionName(junctions_[k].name, n)
    /\ \A k, o \in DOMAIN junctions_ :
            junctions_[k].name = junctions_[o].name => k = o

\* no step changes the name of an entry
C4_NameKept ==
    \A k \in DOMAIN junctions_ :
        k \in DOMAIN junctions_' /\ junctions_'[k].name = junctions_[k].name

\* C4: the k-th distinct key accepted since the store was created is named
\* "JUNC" followed by k zero-padded to 8 digits, later merges leave the name
\* unchanged, and no two entries have the same name
C4_SequentialNames == [] C4_Names /\ [][C4_NameKept]_vars

C4_Witness ==
    \E x, y, z \in 1 .. Len(submitted) :
        /\ x < y /\ y < z
        /\ ~ InBounds(submitted[y])
        /\ \E k \in EntriesOf(submitted[x]) :
                /\ junctions_[k].read_count = 2
                /\ junctions_[k].name = <<"J", "U", "N", "C", "0", "0", "0", "0", "0", "0", "0", "1">>
        /\ \E k \in EntriesOf(submitted[z]) :
                /\ junctions_[k].read_count = 1
                /\ junctions_[k].name = <<"J", "U", "N", "C", "0", "0", "0", "0", "0", "0", "0", "2">>

\* the candidates of the current record up to the x-th that satisfy the
\* length bounds
AcceptedUpTo(x) == {y \in 1 .. x : InBounds(submitted[y])}

\* a step that submits a candidate c: if min_intron_length_ <= end - start <=
\* max_intron_length_ the store changes and has an entry for c, otherwise
\* the store is unchanged
C5_Step ==
    Len(submitted') = Len(submitted) + 1 =>
        LET c == submitted'[Len(submitted')]
        IN  IF InBounds(c)
            THEN /\ junctions_' # junctions_
                 /\ \E k \in DOMAIN junctions_' : KeyTuple(junctions_'[k]) = KeyTuple(c)
            ELSE junctions_' = junctions_

\* the names given within one record count the accepted candidates only
C5_Ordinals ==
    /\ pc # "idle" => Cardinality(DOMAIN junctions_) = Cardinality(AcceptedUpTo(Len(submitted)))
    /\ \A x \in 1 .. Len(submitted) :
            InBounds(submitted[x]) =>
                \E k \in EntriesOf(submitted[x]) :
                    IsJunctionName(junctions_[k].name, Cardinality(AcceptedUpTo(x)))

\* C5: a submitted candidate is accepted if and only if
\* min_intron_length_ <= end - start <= max_intron_length_, both bounds
\* inclusive; a rejected candidate leaves the store unchanged and uses up
\* no name ordinal
C5_LengthBounds == [] C5_Ordinals /\ [][C5_Step]_vars

C5_Witness ==
    \E x, y, z \in 1 .. Len(submitted) :
        /\ x < y /\ y < z
        /\ submitted[x].end - submitted[x].start = max_intron_length_
        /\ submitted[y].end - submitted[y].start > max_intron_length_
        /\ submitted[z].end - submitted[z].start = min_intron_length_
        /\ Cardinality(DOMAIN junctions_) = 2
        /\ \E k \in EntriesOf(submitted[z]) :
                junctions_[k].name = <<"J", "U", "N", "C", "0", "0", "0", "0", "0", "0", "0", "2">>

C5_WitnessTooShort ==
    \E x, y \in 1 .. Len(submitted) :
        /\ x < y
        /\ InBounds(submitted[x])
        /\ submitted[y].end - submitted[y].start < min_intron_length_
        /\ Cardinality(DOMAIN junctions_) = 1

\* C6: for every accepted candidate, has_left_min_anchor is set exactly when
\* start - thick_start >= min_anchor_length_ and has_right_min_anchor exactly
\* when thick_end - end >= min_anchor_length_, whatever the same record
\* submitted before: the builder and the candidates it submits carry no flag
C6_AnchorFlags ==
    /\ ~ j1.has_left_min_anchor /\ ~ j1.has_right_min_anchor
    /\ \A x \in 1 .. Len(submitted) :
            LET c == submitted[x]
            IN  /\ ~ c.has_left_min_anchor /\ ~ c.has_right_min_anchor
                /\ \A k \in EntriesOf(c) :
                        /\ junctions_[k].has_left_min_anchor
                                = (c.start - c.thick_start >= min_anchor_length_)
                        /\ junctions_[k].has_right_min_anchor
                                = (c.thick_end - c.end >= min_anchor_length_)

C6_Witness ==
    /\ pc = "done"
    /\ \E x, y \in 1 .. Len(submitted) :
            /\ x < y
            /\ submitted[x].start - submitted[x].thick_start = min_anchor_length_
            /\ submitted[y].start - submitted[y].thick_start < min_anchor_length_
            /\ \E k \in EntriesOf(submitted[x]) :
                    junctions_[k].has_left_min_anchor /\ ~ junctions_[k].has_right_min_anchor
            /\ \E k \in EntriesOf(submitted[y]) :
                    ~ junctions_[k].has_left_min_anchor /\ junctions_[k].has_right_min_anchor

\* the step walks an operation of one of the characters `chars`
Walks(chars) ==
    /\ Len(cigar') = Len(cigar) + 1
    /\ cigar'[Len(cigar')][1] \in chars

\* an Intron of length L met while a junction is open submits the open
\* candidate as it is and opens the next one: thick_start = previous end,
\* start = previous thick_end, end = start + L, thick_end = end
C7_Step ==
    (Walks({"N"}) /\ started_junction) =>
        LET L == cigar'[Len(cigar')][2]
        IN  /\ submitted' = Append(submitted, j1)
            /\ started_junction'
            /\ j1'.thick_start = j1.end
            /\ j1'.start = j1.thick_end
            /\ j1'.end = j1'.start + L
            /\ j1'.thick_end = j1'.end

\* the record [Match a, Intron L1, Match m, Intron L2, Match b] submits two
\* candidates; m is the right anchor of the first and the left anchor of the
\* second, whose has_left_min_anchor is false when m < min_anchor_length_
C7_Record ==
    (pc = "done" /\ n_cigar = 5
        /\ CigarShape(<<MatchOps, {"N"}, MatchOps, {"N"}, MatchOps>>)) =>
        LET m == cigar[3][2]
        IN  /\ Len(submitted) = 2
            /\ submitted[1].thick_end - submitted[1].end = m
            /\ submitted[2].start - submitted[2].thick_start = m
            /\ submitted[2].thick_start = submitted[1].end
            /\ submitted[2].start = submitted[1].thick_end
            /\ m < min_anchor_length_ =>
                    \A k \in EntriesOf(submitted[2]) : ~ junctions_[k].has_left_min_anchor

\* C7: an Intron met while a junction is open commits the open candidate and
\* opens a new one whose left anchor is the previous right anchor; a record
\* with two introns yields two candidates sharing the middle match
C7_SecondIntron == [] C7_Record /\ [][C7_Step]_vars

C7_Witness ==
    /\ pc = "done"
    /\ cigar = <<<<"M", 2>>, <<"N", 1>>, <<"M", 1>>, <<"N", 1>>, <<"M", 2>>>>
    /\ Len(submitted) = 2
    /\ \E k \in EntriesOf(submitted[1]) : junctions_[k].has_left_min_anchor
    /\ \E k \in EntriesOf(submitted[2]) :
            ~ junctions_[k].has_left_min_anchor /\ junctions_[k].has_right_min_anchor

\* a Deletion or Mismatch of length L: with no junction open it submits
\* nothing, moves start forward by L and sets thick_start to the new start;
\* with a junction open it submits the open candidate as it is, then sets
\* start = previous thick_end + L and thick_start = start; either way no
\* junction is open afterwards
C8_Step ==
    Walks({"D", "X"}) =>
        LET L == cigar'[Len(cigar')][2]
        IN  /\ ~ started_junction'
            /\ j1'.thick_start = j1'.start
            /\ IF ~ started_junction
               THEN /\ submitted' = submitted
                    /\ junctions_' = junctions_
                    /\ j1'.start = j1.start + L
               ELSE /\ submitted' = Append(submitted, j1)
                    /\ j1'.start = j1.thick_end + L

\* the record [Match a, Deletion|Mismatch d, Match c, Intron L, Match b]
\* submits one candidate whose left anchor is c, counted from just after
\* the deletion
C8_Record ==
    (pc = "done" /\ n_cigar = 5
        /\ CigarShape(<<MatchOps, {"D", "X"}, MatchOps, {"N"}, MatchOps>>)) =>
        /\ Len(submitted) = 1
        /\ submitted[1].thick_start = read_pos + cigar[1][2] + cigar[2][2]
        /\ submitted[1].start - submitted[1].thick_start = cigar[3][2]
        /\ submitted[1].thick_end - submitted[1].end = cigar[5][2]

\* C8: a Deletion or Mismatch removes anchor credit on both sides: before an
\* intron it advances start and resets thick_start to the new start, while
\* an intron is open it commits the open junction with the right anchor
\* accumulated so far, restarts past the operation and closes the intron
C8_DeletionMismatch == [] C8_Record /\ [][C8_Step]_vars

C8_Witness ==
    /\ pc = "done"
    /\ cigar = <<<<"D", 2>>, <<"M", 1>>, <<"N", 1>>, <<"M", 1>>, <<"X", 1>>>>
    /\ Len(submitted) = 1
    /\ submitted[1].thick_start = read_pos + 2
    /\ submitted[1].start - submitted[1].thick_start = 1
    /\ submitted[1].thick_end - submitted[1].end = 1
    /\ j1.start = submitted[1].thick_end + 1
    /\ j1.thick_start = j1.start
    /\ ~ started_junction

C8_WitnessExample ==
    /\ pc = "done"
    /\ cigar = <<<<"M", 2>>, <<"D", 2>>, <<"M", 1>>, <<"N", 1>>, <<"M", 2>>>>
    /\ \E k \in EntriesOf(submitted[1]) :
            ~ junctions_[k].has_left_min_anchor /\ junctions_[k].has_right_min_anchor

\* a comes before b in lexicographic order: a proper prefix of b, or the
\* smaller character at the first place where they differ
LexLess(a, b) ==
    \E n \in 1 .. Len(b) :
        /\ \A x \in 1 .. n - 1 : x <= Len(a) /\ a[x] = b[x]
        /\ \/ n = Len(a) + 1
           \/ n <= Len(a) /\ Ord[a[n]] < Ord[b[n]]

\* x is not after y by chromosome name, then start, then end
PositionLeq(x, y) ==
    \/ LexLess(x.chrom, y.chrom)
    \/ /\ x.chrom = y.chrom
       /\ \/ x.start < y.start
          \/ x.start = y.start /\ x.end <= y.end

SortedByPosition(v) ==
    \A a, b \in 1 .. Len(v) : a < b => PositionLeq(v[a], v[b])

\* C9: what get_all_junctions returns, and what print_all_junctions prints,
\* is in ascending order of chromosome name (lexicographic), then start,
\* then end
C9_CatalogSorted ==
    out[1] \in {"get", "print"} => SortedByPosition(out[2])

C9_Witness ==
    /\ out[1] = "get"
    /\ Len(out[2]) >= 3
    /\ out[2] # create_junctions_vector(<<>>, junctions_)
    /\ {out[2][x] : x \in 1 .. Len(out[2])} = {junctions_[k] : k \in DOMAIN junctions_}
    /\ \E a, b \in 1 .. Len(out[2]) : out[2][a].chrom # out[2][b].chrom

Nested(j) ==
    /\ j.thick_start <= j.start
    /\ j.start <= j.end
    /\ j.end <= j.thick_end

\* C10: thick_start <= start <= end <= thick_end for every candidate the
\* walker submits and for every entry of the store
C10_Nested ==
    /\ \A x \in 1 .. Len(submitted) : Nested(submitted[x])
    /\ \A k \in DOMAIN junctions_ : Nested(junctions_[k])

C10_Witness ==
    /\ n_records = 2
    /\ Len(submitted) = 2
    /\ submitted[2].thick_start = submitted[1].end
    /\ submitted[1].thick_end > submitted[1].end
    /\ \E k \in EntriesOf(submitted[1]) :
            /\ junctions_[k].read_count = 2
            /\ junctions_[k].thick_start < submitted[1].thick_start
            /\ junctions_[k].thick_end > submitted[1].thick_end

\* candidates whose texts could run into each other in a delimited key:
\* chromosome names that contain the delimiters and digits, coordinates
\* whose digits are prefixes of each other, every strand
KeyProbes ==
    [chrom : {<<"c", "1">>, <<"c", "1", "0">>, <<"c", "1", ":", "1">>,
              <<"c", "1", ":", "1", "-", "1">>, <<"c", "-", "1", ":">>},
     start : {0, 1, 10, 11, 101, 110},
     end : {1, 10, 11, 101, 110, 111},
     strand : {<<"?">>, <<"+">>, <<"-">>}]

\* no two different (chrom, start, end, strand) have the same key text
KeyCollisionFree ==
    \A a, b \in KeyProbes : junction_key(a) = junction_key(b) => a = b

\* C11: two accepted candidates share a store entry if and only if they
\* agree on chrom, start, end and strand: each entry is stored under the key
\* of its own tuple, there is one entry per accepted tuple, and different
\* tuples (also those that differ in strand only) have different keys
C11_KeyExact ==
    /\ KeyCollisionFree
    /\ \A k \in DOMAIN junctions_ : k = junction_key(junctions_[k])
    /\ \A k, o \in DOMAIN junctions_ :
            KeyTuple(junctions_[k]) = KeyTuple(junctions_[o]) => k = o
    /\ {KeyTuple(junctions_[k]) : k \in DOMAIN junctions_} = DOMAIN accepted

C11_Witness ==
    /\ n_records = 2
    /\ \E k, o \in DOMAIN junctions_ :
            /\ junctions_[k].strand = <<"?">>
            /\ junctions_[o].strand = <<"+">>
            /\ junctions_[k].chrom = junctions_[o].chrom
            /\ junctions_[k].start = junctions_[o].start
            /\ junctions_[k].end = junctions_[o].end
            /\ junctions_[k].read_count = 1
            /\ junctions_[o].read_count = 1

\* the elements of a sequence
Range(v) == {v[x] : x \in 1 .. Len(v)}

\* C12: a catalog request returns exactly the store's current entries, also
\* when add_junction has inserted or merged since the catalog was first
\* materialized
C12_CatalogFresh ==
    out[1] = "get" =>
        /\ Range(out[2]) = {junctions_[k] : k \in DOMAIN junctions_}
        /\ Len(out[2]) = Cardinality(DOMAIN junctions_)

\* the case of C12: a request answered after the store changed behind a
\* materialized catalog
C12_StaleRequest ==
    /\ out[1] = "get"
    /\ n_records = 2
    /\ Range(out[2]) # {junctions_[k] : k \in DOMAIN junctions_}

\* the records of fewer than 2 operations: none, or one of any kind
ShortCigars == {<<>>} \cup {<<o>> : o \in WalkOps}

\* entering the call with n_cigar <= 1 goes straight to the return: nothing
\* is submitted and the store is as it was
C13_Step ==
    (pc = "idle" /\ pc' # "idle" /\ n_cigar' <= 1) =>
        /\ pc' = "done"
        /\ submitted' = <<>>
        /\ junctions_' = junctions_

\* at the return of such a call nothing was walked or submitted, and on the
\* store of any state a record of fewer than 2 operations changes nothing
C13_Short ==
    /\ (pc = "done" /\ n_cigar <= 1) => (cigar = <<>> /\ submitted = <<>>)
    /\ \A cig \in ShortCigars, pos \in Positions :
            LET r == parse_alignment_into_junctions(<<"c", "1">>, pos, "none", cig, junctions_)
            IN  r.sent = <<>> /\ r.junctions = junctions_

\* C13: a record with fewer than 2 CIGAR operations submits no candidate and
\* leaves the store unchanged
C13_FewerThanTwo == [] C13_Short /\ [][C13_Step]_vars

C13_Witness ==
    /\ pc = "done"
    /\ n_cigar = 1
    /\ submitted = <<>>
    /\ junctions_ = <<>>

\* an Insertion or SoftClip: with no junction open it submits nothing, keeps
\* start and sets thick_start to start; with a junction open it submits the
\* open candidate as it is, then sets start = previous thick_end and
\* thick_start = start; either way no junction is open afterwards
C14_Step ==
    Walks({"I", "S"}) =>
        /\ ~ started_junction'
        /\ j1'.thick_start = j1'.start
        /\ IF ~ started_junction
           THEN /\ submitted' = submitted
                /\ junctions_' = junctions_
                /\ j1'.start = j1.start
           ELSE /\ submitted' = Append(submitted, j1)
                /\ j1'.start = j1.thick_end

\* matches after an insertion or clip give the committed junction no right
\* anchor, matches before it give the next junction no left anchor, and the
\* junction's coordinates are not moved by it
C14_Record ==
    /\ (pc = "done" /\ n_cigar = 5
            /\ CigarShape(<<MatchOps, {"N"}, MatchOps, {"I", "S"}, MatchOps>>)) =>
            /\ Len(submitted) = 1
            /\ submitted[1].thick_end - submitted[1].end = cigar[3][2]
    /\ (pc = "done" /\ n_cigar = 5
            /\ CigarShape(<<MatchOps, {"I", "S"}, MatchOps, {"N"}, MatchOps>>)) =>
            /\ Len(submitted) = 1
            /\ submitted[1].start = read_pos + cigar[1][2] + cigar[3][2]
            /\ submitted[1].start - submitted[1].thick_start = cigar[3][2]

\* C14: an Insertion or SoftClip never advances the reference position;
\* before an intron it resets thick_start to start, while an intron is open
\* it commits the open junction, restarts at the previous thick_end and
\* closes the intron
C14_InsertionSoftClip == [] C14_Record /\ [][C14_Step]_vars

C14_Witness ==
    /\ pc = "done"
    /\ cigar = <<<<"M", 2>>, <<"N", 1>>, <<"M", 1>>, <<"I", 1>>, <<"M", 2>>>>
    /\ Len(submitted) = 1
    /\ submitted[1].thick_end - submitted[1].end = 1
    /\ j1.start = submitted[1].thick_end + 2
    /\ j1.thick_start = submitted[1].thick_end
    /\ \E k \in EntriesOf(submitted[1]) : ~ junctions_[k].has_right_min_anchor

\* the characters that reach case 'H' or the default case
SkippedOps == OpChars \ {"N", "=", "M", "D", "X", "I", "S"}

\* the operations of cig without the skipped ones
Stripped(cig) == SelectSeq(cig, LAMBDA o : o[1] \notin SkippedOps)

\* a HardClip or an unknown operation changes neither the builder nor the
\* flag nor the store, submits nothing, and the loop goes on
C15_Step ==
    Walks(SkippedOps) =>
        /\ j1' = j1
        /\ started_junction' = started_junction
        /\ junctions_' = junctions_
        /\ submitted' = submitted
        /\ pc' = "loop"
        /\ i' = i + 1

\* at the end of a record, what it submitted and stored is what the record
\* without its skipped operations submits and stores
C15_Record ==
    (pc = "done" /\ n_cigar >= 2 /\ Len(Stripped(cigar)) >= 2) =>
        LET r == parse_alignment_into_junctions(<<"c", "1">>, read_pos, "none",
                                                Stripped(cigar), <<>>)
        IN  submitted = r.sent /\ junctions_ = r.junctions

\* C15: a HardClip or an unrecognized operation leaves builder, flag and
\* store unchanged and does not stop the walk; the record's candidates are
\* those of the record without these operations
C15_Skipped == [] C15_Record /\ [][C15_Step]_vars

C15_Witness ==
    /\ pc = "done"
    /\ cigar = <<<<"M", 2>>, <<"H", 1>>, <<"N", 1>>, <<"P", 1>>, <<"M", 2>>>>
    /\ Len(submitted) = 1
    /\ submitted[1].start = read_pos + 2
    /\ submitted[1].thick_start = read_pos
    /\ submitted[1].thick_end = read_pos + 5
    /\ EntriesOf(submitted[1]) # {}

\* the step is a catalog request
Requests == out' # out /\ out'[1] \in {"get", "print"}

\* the first request makes a sequence with exactly one element per store
\* key; every later request leaves that sequence as it is; get returns it
\* and print prints its elements that have both anchors, in its order
C16_Step ==
    Requests =>
        /\ junctions_sorted_'
        /\ IF junctions_sorted_
           THEN junctions_vector_' = junctions_vector_
           ELSE /\ Len(junctions_vector_') = Cardinality(DOMAIN junctions_)
                /\ Range(junctions_vector_') = {junctions_[k] : k \in DOMAIN junctions_}
        /\ out'[1] = "get" => out'[2] = junctions_vector_'
        /\ out'[1] = "print" =>
                out'[2] = SelectSeq(junctions_vector_',
                            LAMBDA j : j.has_left_min_anchor /\ j.has_right_min_anchor)

\* C16: the catalog is materialized and sorted once, on the first request;
\* requests with no add_junction in between see the same sequence, which has
\* exactly one element per store key and never grows by repetition
C16_MaterializedOnce == [][C16_Step]_vars

C16_Witness ==
    /\ out[1] = "print"
    /\ n_records = 2
    /\ junctions_sorted_
    /\ Len(junctions_vector_) >= 3
    /\ Len(junctions_vector_) = Cardinality(DOMAIN junctions_)
    /\ Range(junctions_vector_) = {junctions_[k] : k \in DOMAIN junctions_}
    /\ Len(out[2]) < Len(junctions_vector_)
    /\ Len(out[2]) >= 1

\* the number of Intron operations among those walked so far
Introns == Len(SelectSeq(cigar, LAMBDA o : o[1] = "N"))

\* during the walk every Intron read so far has been submitted once, except
\* the one that is still open; at the end every one has
C17_Count ==
    /\ pc = "loop" =>
            Len(submitted) + (IF started_junction THEN 1 ELSE 0) = Introns
    /\ (pc = "done" /\ n_cigar >= 2) => Len(submitted) = Introns

\* nothing is submitted while no junction is open, and one step submits at
\* most one candidate
C17_Step ==
    /\ (pc = "loop" /\ ~ started_junction) => submitted' = submitted
    /\ pc = "loop" => Len(submitted') <= Len(submitted) + 1

\* C17: a record with at least 2 operations submits as many candidates as it
\* has Intron operations: each opened junction is committed exactly once and
\* nothing is committed when none is open
C17_OnePerIntron == [] C17_Count /\ [][C17_Step]_vars

C17_Witness ==
    /\ pc = "done"
    /\ cigar = <<<<"N", 1>>, <<"N", 2>>, <<"D", 1>>, <<"N", 1>>, <<"M", 1>>>>
    /\ Len(submitted) = 3

\* the characters of the operations that cover reference bases
ReferenceOps == {"M", "=", "X", "D", "N"}

\* the reference bases covered by the operations ops
RECURSIVE ReferenceLength(_)
ReferenceLength(ops) ==
    IF ops = <<>> THEN 0
    ELSE (IF Head(ops)[1] \in ReferenceOps THEN Head(ops)[2] ELSE 0)
            + ReferenceLength(Tail(ops))

\* the place in the record of its x-th Intron operation
IntronAt(x) ==
    CHOOSE n \in 1 .. Len(cigar) :
        /\ cigar[n][1] = "N"
        /\ Len(SelectSeq(SubSeq(cigar, 1, n), LAMBDA o : o[1] = "N")) = x

\* C18: the x-th candidate of a record is the exact reference interval of
\* its x-th Intron: start = position + reference length of the operations
\* before it, end = start + its length; so the candidates of a record have
\* increasing intervals that do not overlap, and different keys
C18_ExactIntervals ==
    /\ \A x \in 1 .. Len(submitted) :
            LET n == IntronAt(x)
            IN  /\ submitted[x].start = read_pos + ReferenceLength(SubSeq(cigar, 1, n - 1))
                /\ submitted[x].end = submitted[x].start + cigar[n][2]
    /\ \A x, y \in 1 .. Len(submitted) :
            x < y => /\ submitted[x].start < submitted[y].start
                     /\ submitted[x].end <= submitted[y].start
                     /\ KeyTuple(submitted[x]) # KeyTuple(submitted[y])

C18_Witness ==
    /\ pc = "done"
    /\ read_pos = 1
    /\ cigar = <<<<"D", 1>>, <<"N", 1>>, <<"N", 2>>, <<"I", 1>>, <<"N", 1>>>>
    /\ Len(submitted) = 3
    /\ submitted[1].start = 2 /\ submitted[1].end = 3
    /\ submitted[2].start = 3 /\ submitted[2].end = 5
    /\ submitted[3].start = 5 /\ submitted[3].end = 6

\* C19: every store entry has has_left_min_anchor = (start - thick_start >=
\* min_anchor_length_) and has_right_min_anchor = (thick_end - end >=
\* min_anchor_length_) on its own, merged extents
C19_FlagsMatchExtents ==
    \A k \in DOMAIN junctions_ :
        LET e == junctions_[k]
        IN  /\ e.has_left_min_anchor = (e.start - e.thick_start >= min_anchor_length_)
            /\ e.has_right_min_anchor = (e.thick_end - e.end >= min_anchor_length_)

C19_Witness ==
    \E c \in Range(submitted) : \E k \in EntriesOf(c) :
        /\ junctions_[k].read_count = 2
        /\ c.start - c.thick_start < min_anchor_length_
        /\ junctions_[k].start - junctions_[k].thick_start >= min_anchor_length_
        /\ junctions_[k].has_left_min_anchor
        /\ junctions_[k].thick_end > c.thick_end
        /\ ~ junctions_[k].has_right_min_anchor

\* the store after the calls add_junction(seq[1]), add_junction(seq[2]), ...
RECURSIVE AddAll(_, _)
AddAll(jmap, seq) ==
    IF seq = <<>> THEN jmap
    ELSE AddAll(add_junction(jmap, Head(seq)), Tail(seq))

\* a store without its names
Evidence(jmap) == [k \in DOMAIN jmap |-> [jmap[k] EXCEPT !.name = <<>>]]

\* the candidates submitted so far, in the order p
Reordered(p) == [x \in 1 .. Len(submitted) |-> submitted[p[x]]]

\* C20: the store reached by any other order of the same submissions has
\* the same keys and, per key, the same read_count, score, thick_start,
\* thick_end and flags; only names may differ
C20_OrderIndependent ==
    \A p \in Permutations(1 .. Len(submitted)) :
        Evidence(AddAll(<<>>, Reordered(p))) = Evidence(junctions_)

C20_Witness ==
    /\ Len(submitted) = 3
    /\ Cardinality(DOMAIN junctions_) = 2
    /\ \E k \in DOMAIN junctions_ :
            /\ junctions_[k].read_count = 2
            /\ junctions_[k].has_left_min_anchor
            /\ \E x \in 1 .. 3 : /\ KeyTuple(submitted[x]) = KeyTuple(junctions_[k])
                                 /\ submitted[x].thick_start > junctions_[k].thick_start
    /\ \E p \in Permutations(1 .. 3) : AddAll(<<>>, Reordered(p)) # junctions_

====
